---- MODULE Spec2Model ----
(***************************************************************************)
(* A model of easypem: the PEM message serializer (Display for PemMessage  *)
(* and PemHeader) and the parser (FromStr for PemMessage, pem_parser,      *)
(* PemHeader::from_pair).                                                  *)
(*                                                                         *)
(* Text is a sequence of one-character strings, a byte is a number in      *)
(* 0..255, an Option is a sequence of length at most one (<<>> is None,    *)
(* <<v>> is Some(v)), and a u32 is a pair of 16-bit halves [hi, lo].       *)
(***************************************************************************)
EXTENDS Integers, Sequences, FiniteSets, TLC

VARIABLES msg, hdrout, rendered, parsed, doc, result

vars == <<msg, hdrout, rendered, parsed, doc, result>>

(***************************************************************************)
(* Bounds of the model.                                                    *)
(***************************************************************************)
\* the longest content, in bytes, that is rendered
MaxContentLen == 50
\* the longest content rendered together with every header combination
SmallContentLen == 2
\* the largest number of header entries of a parsed document
MaxEntries == 3

(***************************************************************************)
(* Text helpers.                                                           *)
(***************************************************************************)
NL == "\n"

Digits == <<"0", "1", "2", "3", "4", "5", "6", "7", "8", "9">>

IsWsp(c) == c \in {" ", "\t"}

RECURSIVE Concat(_)
\* the concatenation of a sequence of texts
Concat(ss) == IF ss = <<>> THEN <<>> ELSE Head(ss) \o Concat(Tail(ss))

Range(s) == {s[i] : i \in 1..Len(s)}

\* the 0-based index of c in the alphabet abc, or -1
IndexOf(abc, c) ==
    IF \E i \in 1..Len(abc) : abc[i] = c
    THEN (CHOOSE i \in 1..Len(abc) : abc[i] = c) - 1
    ELSE -1

StartsWith(s, p) == Len(s) >= Len(p) /\ SubSeq(s, 1, Len(p)) = p

EndsWith(s, p) == Len(s) >= Len(p) /\ SubSeq(s, Len(s) - Len(p) + 1, Len(s)) = p

\* str::trim on a line: leading and trailing white space removed
Trim(s) ==
    LET keep == {i \in 1..Len(s) : ~(IsWsp(s[i]) \/ s[i] = "\r")}
    IN  IF keep = {} THEN <<>>
        ELSE SubSeq(s, CHOOSE i \in keep : \A j \in keep : i <= j,
                       CHOOSE i \in keep : \A j \in keep : i >= j)

\* leading white space removed
TrimStart(s) ==
    LET keep == {i \in 1..Len(s) : ~IsWsp(s[i])}
    IN  IF keep = {} THEN <<>>
        ELSE SubSeq(s, CHOOSE i \in keep : \A j \in keep : i <= j, Len(s))

\* str::lines: the text split at line feeds; a final line feed ends the last
\* line and starts no further one
Lines(t) ==
    LET nls   == {i \in 1..Len(t) : t[i] = NL}
        ends  == nls \cup (IF t # <<>> /\ t[Len(t)] # NL THEN {Len(t) + 1} ELSE {})
        start(e) == IF \E i \in nls : i < e
                    THEN (CHOOSE i \in nls : i < e /\ \A j \in nls : j < e => j <= i) + 1
                    ELSE 1
        RECURSIVE build(_)
        build(es) == IF es = {} THEN <<>>
                     ELSE LET e == CHOOSE x \in es : \A y \in es : x <= y
                          IN  <<SubSeq(t, start(e), e - 1)>> \o build(es \ {e})
    IN  build(ends)

(***************************************************************************)
(* base64 (the base64 crate, standard alphabet, padded).                   *)
(***************************************************************************)
B64Chars ==
    <<"A", "B", "C", "D", "E", "F", "G", "H", "I", "J", "K", "L", "M",
      "N", "O", "P", "Q", "R", "S", "T", "U", "V", "W", "X", "Y", "Z",
      "a", "b", "c", "d", "e", "f", "g", "h", "i", "j", "k", "l", "m",
      "n", "o", "p", "q", "r", "s", "t", "u", "v", "w", "x", "y", "z",
      "0", "1", "2", "3", "4", "5", "6", "7", "8", "9", "+", "/">>

Pow64(k) == CASE k = 0 -> 1 [] k = 1 -> 64 [] k = 2 -> 4096 [] OTHER -> 262144

Pow256(k) == CASE k = 0 -> 1 [] k = 1 -> 256 [] OTHER -> 65536

\* base64::encode: every three bytes give four symbols, the last group is
\* padded with "="
Base64Encode(bytes) ==
    LET n       == Len(bytes)
        byte(i) == IF i <= n THEN bytes[i] ELSE 0
        sym(k)  ==
            LET g   == (k - 1) \div 4
                j   == (k - 1) % 4
                n24 == byte(3 * g + 1) * 65536 + byte(3 * g + 2) * 256 + byte(3 * g + 3)
            IN  IF j >= 2 /\ 3 * g + j > n
                THEN "="
                ELSE B64Chars[((n24 \div Pow64(3 - j)) % 64) + 1]
    IN  [k \in 1..(4 * ((n + 2) \div 3)) |-> sym(k)]

\* base64::decode_config with RFC1421_CFG (decode_allow_trailing_bits): the
\* padding is optional, the left-over bits of the last symbol are ignored.
\* The result is [ok, bytes].
Base64Decode(s) ==
    LET pads == {i \in 1..Len(s) : \A j \in i..Len(s) : s[j] = "="}
        p    == Cardinality(pads)
        data == SubSeq(s, 1, Len(s) - p)
        n    == Len(data)
        bad  == \/ \E i \in 1..n : IndexOf(B64Chars, data[i]) < 0
                \/ n % 4 = 1
                \/ p > 2
                \/ p > 0 /\ (n + p) % 4 # 0
        val(i)  == IF i <= n THEN IndexOf(B64Chars, data[i]) ELSE 0
        byte(i) ==
            LET g   == (i - 1) \div 3
                j   == (i - 1) % 3
                n24 == val(4 * g + 1) * 262144 + val(4 * g + 2) * 4096
                       + val(4 * g + 3) * 64 + val(4 * g + 4)
            IN  (n24 \div Pow256(2 - j)) % 256
    IN  IF bad THEN [ok |-> FALSE, bytes |-> <<>>]
        ELSE [ok |-> TRUE, bytes |-> [i \in 1..((n * 6) \div 8) |-> byte(i)]]

(***************************************************************************)
(* hex (the hex crate).                                                    *)
(***************************************************************************)
HexUpper == <<"0", "1", "2", "3", "4", "5", "6", "7",
              "8", "9", "A", "B", "C", "D", "E", "F">>

HexLower == <<"0", "1", "2", "3", "4", "5", "6", "7",
              "8", "9", "a", "b", "c", "d", "e", "f">>

\* hex::encode_upper
HexEncodeUpper(bytes) ==
    [k \in 1..(2 * Len(bytes)) |->
        LET b == bytes[(k + 1) \div 2]
        IN  IF k % 2 = 1 THEN HexUpper[(b \div 16) + 1] ELSE HexUpper[(b % 16) + 1]]

HexVal(c) == IF IndexOf(HexUpper, c) >= 0 THEN IndexOf(HexUpper, c) ELSE IndexOf(HexLower, c)

\* hex::decode: an odd length or a character that is no hex digit is an error;
\* both cases of the letters are accepted.  The result is [ok, bytes].
HexDecode(s) ==
    IF Len(s) % 2 = 1 \/ \E i \in 1..Len(s) : HexVal(s[i]) < 0
    THEN [ok |-> FALSE, bytes |-> <<>>]
    ELSE [ok |-> TRUE,
          bytes |-> [i \in 1..(Len(s) \div 2) |-> HexVal(s[2 * i - 1]) * 16 + HexVal(s[2 * i])]]

(***************************************************************************)
(* u32, kept as two 16-bit halves: the value is hi * 65536 + lo.           *)
(***************************************************************************)
U32(hi, lo) == [hi |-> hi, lo |-> lo]

RECURSIVE U32Digits(_)
\* the decimal digits of a u32, most significant first (Display for u32)
U32Digits(v) ==
    LET qh  == v.hi \div 10
        rh  == v.hi % 10
        low == rh * 65536 + v.lo
        q   == U32(qh, low \div 10)
        d   == low % 10
    IN  IF q.hi = 0 /\ q.lo = 0 THEN <<Digits[d + 1]>>
        ELSE U32Digits(q) \o <<Digits[d + 1]>>

RECURSIVE U32Accumulate(_, _)
\* the digits of s added to acc one by one; [ok, val], ok is FALSE on overflow
U32Accumulate(acc, s) ==
    IF s = <<>> THEN [ok |-> TRUE, val |-> acc]
    ELSE LET lo10 == acc.lo * 10 + IndexOf(Digits, Head(s))
             hi10 == acc.hi * 10 + (lo10 \div 65536)
         IN  IF hi10 > 65535 THEN [ok |-> FALSE, val |-> U32(0, 0)]
             ELSE U32Accumulate(U32(hi10, lo10 % 65536), Tail(s))

RECURSIVE U32AccumulateWrapping(_, _)
\* the digits of s added to acc one by one, the value wrapping at 2^32
U32AccumulateWrapping(acc, s) ==
    IF s = <<>> THEN [ok |-> TRUE, val |-> acc]
    ELSE LET lo10 == acc.lo * 10 + IndexOf(Digits, Head(s))
             hi10 == acc.hi * 10 + (lo10 \div 65536)
         IN  U32AccumulateWrapping(U32(hi10 % 65536, lo10 % 65536), Tail(s))

\* str::parse::<u32> as it would be with wrapping arithmetic
ParseU32Wrapping(s) ==
    LET body == IF s # <<>> /\ Head(s) = "+" THEN Tail(s) ELSE s
    IN  IF body = <<>> \/ \E i \in 1..Len(body) : IndexOf(Digits, body[i]) < 0
        THEN [ok |-> FALSE, val |-> U32(0, 0)]
        ELSE U32AccumulateWrapping(U32(0, 0), body)

\* str::parse::<u32>: an optional "+", then one or more decimal digits, the
\* value at most 4294967295; anything else is an error
ParseU32(s) ==
    LET body == IF s # <<>> /\ Head(s) = "+" THEN Tail(s) ELSE s
    IN  IF body = <<>> \/ \E i \in 1..Len(body) : IndexOf(Digits, body[i]) < 0
        THEN [ok |-> FALSE, val |-> U32(0, 0)]
        ELSE U32Accumulate(U32(0, 0), body)

(***************************************************************************)
(* The data model: PemMessage, PemHeader, ProcType, ContentDomain, DEKInfo.*)
(***************************************************************************)
ProcTypeSpecifiers == {"ENCRYPTED", "MIC_ONLY", "MIC_CLEAR", "CRL"}

ProcType(ver, spec) == [ver |-> ver, spec |-> spec]

DEKInfo(algorithm, parameter) == [algorithm |-> algorithm, parameter |-> parameter]

PemHeader(proc_type, content_domain, dek_info) ==
    [proc_type |-> proc_type, content_domain |-> content_domain, dek_info |-> dek_info]

\* PemHeader::default(): every field None
PemHeaderDefault == PemHeader(<<>>, <<>>, <<>>)

PemMessage(label, headers, content) ==
    [label |-> label, headers |-> headers, content |-> content]

(***************************************************************************)
(* Rendering (the Display implementations).                                *)
(***************************************************************************)
Dashes == <<"-", "-", "-", "-", "-">>

BeginPrefix == Dashes \o <<"B", "E", "G", "I", "N", " ">>

EndPrefix == Dashes \o <<"E", "N", "D", " ">>

ProcTypeName == <<"P", "r", "o", "c", "-", "T", "y", "p", "e">>

ContentDomainName ==
    <<"C", "o", "n", "t", "e", "n", "t", "-", "D", "o", "m", "a", "i", "n">>

DEKInfoName == <<"D", "E", "K", "-", "I", "n", "f", "o">>

\* the width of a body line
LineWidth == 64

\* Display for ProcTypeSpecifier
ProcTypeSpecifierFmt(spec) ==
    CASE spec = "ENCRYPTED" -> <<"E", "N", "C", "R", "Y", "P", "T", "E", "D">>
      [] spec = "MIC_ONLY"  -> <<"M", "I", "C", "-", "O", "N", "L", "Y">>
      [] spec = "MIC_CLEAR" -> <<"M", "I", "C", "-", "C", "L", "E", "A", "R">>
      [] spec = "CRL"       -> <<"C", "R", "L">>

\* Display for ProcType: "Proc-Type: {version},{specifier}"
ProcTypeFmt(pt) ==
    ProcTypeName \o <<":", " ">> \o U32Digits(pt.ver) \o <<",">> \o ProcTypeSpecifierFmt(pt.spec)

\* Display for ContentDomain: "Content-Domain: {value}"
ContentDomainFmt(cd) == ContentDomainName \o <<":", " ">> \o cd

\* Display for DEKInfo: the comma and the hex only for a parameter that is
\* not empty
DEKInfoFmt(dek) ==
    IF dek.parameter = <<>>
    THEN DEKInfoName \o <<":", " ">> \o dek.algorithm
    ELSE DEKInfoName \o <<":", " ">> \o dek.algorithm \o <<",">> \o HexEncodeUpper(dek.parameter)

\* is_empty as it would be if it looked at every field
PemHeaderIsEmptyAllNone(h) ==
    h.proc_type = <<>> /\ h.content_domain = <<>> /\ h.dek_info = <<>>

\* PemHeader::is_empty
PemHeaderIsEmpty(h) == h.proc_type = <<>>

\* Display for PemHeader as it would be without the gate on Proc-Type
PemHeaderFmtUngated(h) ==
    LET f1 == IF h.proc_type # <<>> THEN ProcTypeFmt(h.proc_type[1]) \o <<NL>> ELSE <<>>
        f2 == IF h.content_domain # <<>>
              THEN f1 \o ContentDomainFmt(h.content_domain[1]) \o <<NL>>
              ELSE f1
    IN  IF h.dek_info # <<>> THEN f2 \o DEKInfoFmt(h.dek_info[1]) \o <<NL>> ELSE f2

\* Display for PemHeader as it would be with DEK-Info written before
\* Content-Domain
PemHeaderFmtSwapped(h) ==
    IF h.proc_type # <<>>
    THEN LET f1 == ProcTypeFmt(h.proc_type[1]) \o <<NL>>
             f2 == IF h.dek_info # <<>> THEN f1 \o DEKInfoFmt(h.dek_info[1]) \o <<NL>> ELSE f1
         IN  IF h.content_domain # <<>>
             THEN f2 \o ContentDomainFmt(h.content_domain[1]) \o <<NL>>
             ELSE f2
    ELSE <<>>

\* Display for PemHeader: nothing without a Proc-Type, else one line a field
PemHeaderFmt(h) ==
    IF h.proc_type # <<>>
    THEN LET f1 == ProcTypeFmt(h.proc_type[1]) \o <<NL>>
             f2 == IF h.content_domain # <<>>
                   THEN f1 \o ContentDomainFmt(h.content_domain[1]) \o <<NL>>
                   ELSE f1
             f3 == IF h.dek_info # <<>>
                   THEN f2 \o DEKInfoFmt(h.dek_info[1]) \o <<NL>>
                   ELSE f2
         IN  f3
    ELSE <<>>

\* slice::chunks_exact(n): the pieces of n elements only, the rest dropped
ChunksExact(s, n) == [k \in 1..(Len(s) \div n) |-> SubSeq(s, (k - 1) * n + 1, k * n)]

\* slice::chunks(n): pieces of n elements, the last one possibly shorter
Chunks(s, n) ==
    [k \in 1..((Len(s) + n - 1) \div n) |->
        SubSeq(s, (k - 1) * n + 1, IF k * n < Len(s) THEN k * n ELSE Len(s))]

\* Display for PemMessage as it would be with the label checked after the
\* BEGIN line is written
PemMessageFmtLateCheck(m) ==
    LET f1 == BeginPrefix \o m.label \o Dashes \o <<NL>>
        f2 == f1 \o PemHeaderFmt(m.headers)
        f3 == IF ~PemHeaderIsEmpty(m.headers) THEN f2 \o <<NL>> ELSE f2
        ch == Chunks(Base64Encode(m.content), LineWidth)
        f4 == f3 \o Concat([k \in 1..Len(ch) |-> ch[k] \o <<NL>>])
    IN  IF m.label = <<>> THEN [ok |-> FALSE, text |-> f1]
        ELSE [ok |-> TRUE, text |-> f4 \o EndPrefix \o m.label \o Dashes]

\* Display for PemMessage; [ok, text], text is what the formatter received
PemMessageFmt(m) ==
    IF m.label = <<>>
    THEN [ok |-> FALSE, text |-> <<>>]
    ELSE LET f1 == BeginPrefix \o m.label \o Dashes \o <<NL>>
             f2 == f1 \o PemHeaderFmt(m.headers)
             f3 == IF ~PemHeaderIsEmpty(m.headers) THEN f2 \o <<NL>> ELSE f2
             ch == Chunks(Base64Encode(m.content), LineWidth)
             f4 == f3 \o Concat([k \in 1..Len(ch) |-> ch[k] \o <<NL>>])
         IN  [ok |-> TRUE, text |-> f4 \o EndPrefix \o m.label \o Dashes]

(***************************************************************************)
(* Results and errors.  A parse ends in a Message ("Ok"), in an error value*)
(* ("Err", a pest Error with its message and the place it points at), or in*)
(* a panic ("Panic").                                                      *)
(***************************************************************************)
\* pest::error::Error: a message and a position (str empty) or a span (the
\* text str starting at line, col)
Error(message, line, col, str) == [message |-> message, line |-> line, col |-> col, str |-> str]

NoError == Error("", 0, 0, <<>>)

NoMessage == PemMessage(<<>>, PemHeaderDefault, <<>>)

NoResult == [kind |-> "None", msg |-> NoMessage, err |-> NoError]

Ok(m) == [kind |-> "Ok", msg |-> m, err |-> NoError]

Err(e) == [kind |-> "Err", msg |-> NoMessage, err |-> e]

Panic(where) == [kind |-> "Panic", msg |-> NoMessage, err |-> Error(where, 0, 0, <<>>)]

\* a token of the grammar: its text and where it starts
Token(str, line, col) == [str |-> str, line |-> line, col |-> col]

\* a pair of the grammar: its rule, its inner tokens, its text and its place
Pair(rule, inner, str, line) == [rule |-> rule, inner |-> inner, str |-> str, line |-> line]

\* custom_error_span / pest_err_span: the error over the span of a token
ErrSpan(message, tok) == Error(message, tok.line, tok.col, tok.str)

\* the error the grammar itself raises, at a position
GrammarError(line, col) == Error("grammar", line, col, <<>>)

Min(S) == CHOOSE x \in S : \A y \in S : x <= y

RECURSIVE SortedSeq(_)
\* the elements of a set of numbers in increasing order
SortedSeq(S) == IF S = {} THEN <<>> ELSE <<Min(S)>> \o SortedSeq(S \ {Min(S)})

\* the index of the first c in s, or 0
FirstIndex(s, c) ==
    IF \E i \in 1..Len(s) : s[i] = c THEN Min({i \in 1..Len(s) : s[i] = c}) ELSE 0

(***************************************************************************)
(* The header-field grammar (headers.pest / the headers rule of pem.pest). *)
(***************************************************************************)
\* the extended fields the grammar recognizes and the decoder skips
ExtendedNames ==
    { <<"O","r","i","g","i","n","a","t","o","r","-","I","D","-",
        "A","s","y","m","m","e","t","r","i","c">>,
      <<"O","r","i","g","i","n","a","t","o","r","-","I","D","-",
        "S","y","m","m","e","t","r","i","c">>,
      <<"O","r","i","g","i","n","a","t","o","r","-",
        "C","e","r","t","i","f","i","c","a","t","e">>,
      <<"R","e","c","i","p","i","e","n","t","-","I","D","-",
        "A","s","y","m","m","e","t","r","i","c">>,
      <<"R","e","c","i","p","i","e","n","t","-","I","D","-",
        "S","y","m","m","e","t","r","i","c">>,
      <<"R","e","c","i","p","i","e","n","t","-",
        "C","e","r","t","i","f","i","c","a","t","e">>,
      <<"I","s","s","u","e","r","-","C","e","r","t","i","f","i","c","a","t","e">>,
      <<"K","e","y","-","I","n","f","o">>,
      <<"M","I","C","-","I","n","f","o">> }

\* one header entry: the physical lines first..last of ls, the first one
\* "<Field-Name>: <body>", the others its folded continuation.  The body is
\* the rest of the first line after the white space that follows the colon,
\* with every continuation line trimmed and appended.  [ok, pair, err]
HeaderEntry(ls, first, last) ==
    LET line  == ls[first]
        colon == FirstIndex(line, ":")
        name  == SubSeq(line, 1, colon - 1)
        rest  == SubSeq(line, colon + 1, Len(line))
        head  == TrimStart(rest)
        col   == colon + 1 + (Len(rest) - Len(head))
        body  == head \o Concat([k \in 1..(last - first) |-> Trim(ls[first + k])])
        comma == FirstIndex(body, ",")
        tok1  == Token(SubSeq(body, 1, comma - 1), first, col)
        tok2  == Token(SubSeq(body, comma + 1, Len(body)), first, col + comma)
        good(p) == [ok |-> TRUE, pair |-> p, err |-> NoError]
        bad(c)  == [ok |-> FALSE, pair |-> Pair("", <<>>, <<>>, first),
                    err |-> GrammarError(first, c)]
    IN  CASE colon = 0 -> bad(1)
          [] colon # 0 /\ name = ProcTypeName ->
                IF comma = 0 THEN bad(col + Len(body))
                ELSE good(Pair("proctype", <<tok1, tok2>>, body, first))
          [] colon # 0 /\ name = ContentDomainName ->
                good(Pair("contentdomain", <<Token(body, first, col)>>, body, first))
          [] colon # 0 /\ name = DEKInfoName ->
                IF comma = 0
                THEN good(Pair("dekinfo", <<Token(body, first, col)>>, body, first))
                ELSE good(Pair("dekinfo", <<tok1, tok2>>, body, first))
          [] colon # 0 /\ name \in ExtendedNames ->
                good(Pair("unsupported_hdr", <<>>, body, first))
          [] OTHER -> bad(1)

\* the header block, the lines from..to of ls: entries in the order of the
\* text, the first of them Proc-Type.  [ok, entries, err]
HeaderGrammar(ls, from, to) ==
    LET starts  == {i \in from..to : ~IsWsp(ls[i][1])}
        lastOf(i) == IF \E j \in starts : j > i
                     THEN Min({j \in starts : j > i}) - 1
                     ELSE to
        order   == SortedSeq(starts)
        parts   == [k \in 1..Len(order) |-> HeaderEntry(ls, order[k], lastOf(order[k]))]
        fails   == {k \in 1..Len(parts) : ~parts[k].ok}
        bad(e)  == [ok |-> FALSE, entries |-> <<>>, err |-> e]
    IN  CASE from \notin starts -> bad(GrammarError(from, 1))
          [] from \in starts /\ fails # {} -> bad(parts[Min(fails)].err)
          [] from \in starts /\ fails = {} /\ parts[1].pair.rule # "proctype" ->
                bad(GrammarError(from, 1))
          [] OTHER ->
                [ok |-> TRUE, entries |-> [k \in 1..Len(parts) |-> parts[k].pair],
                 err |-> NoError]

(***************************************************************************)
(* The envelope grammar (pem.pest, rule pem).                              *)
(***************************************************************************)
\* the lines from..to of ls joined again, a line feed after each
JoinLines(ls, from, to) == Concat([k \in 1..(to - from + 1) |-> ls[from + k - 1] \o <<NL>>])

\* PemParser::parse(Rule::pem, input): the text before the BEGIN line is
\* skipped; the END line carries the label of the BEGIN line; between them
\* an optional header block, closed by a blank line, and the content lines.
\* [ok, portions, err], the portions in the order pre_eb, headers, content,
\* post_eb, the last three only when the text has them.
PemGrammar(input) ==
    LET ls      == Lines(input)
        isBegin(l) == /\ StartsWith(l, BeginPrefix)
                      /\ EndsWith(l, Dashes)
                      /\ Len(l) > Len(BeginPrefix) + Len(Dashes)
        begins  == {i \in 1..Len(ls) : isBegin(ls[i])}
        b       == Min(begins)
        label   == SubSeq(ls[b], Len(BeginPrefix) + 1, Len(ls[b]) - Len(Dashes))
        ends    == {i \in (b + 1)..Len(ls) : StartsWith(ls[i], EndPrefix)}
        e       == Min(ends)
        hasHdr  == b + 1 < e /\ ":" \in Range(ls[b + 1])
        blanks  == {i \in (b + 1)..(e - 1) : Trim(ls[i]) = <<>>}
        blank   == Min(blanks)
        hdr     == HeaderGrammar(ls, b + 1, blank - 1)
        cfrom   == IF hasHdr THEN blank + 1 ELSE b + 1
        filled  == {i \in cfrom..(e - 1) : Trim(ls[i]) # <<>>}
        pre     == <<Pair("pre_eb", <<Token(label, b, Len(BeginPrefix) + 1)>>, ls[b], b)>>
        hdrs    == IF hasHdr THEN <<Pair("headers", hdr.entries, <<>>, b + 1)>> ELSE <<>>
        content == IF filled # {}
                   THEN <<Pair("content", <<>>, JoinLines(ls, Min(filled), e - 1), Min(filled))>>
                   ELSE <<>>
        post    == <<Pair("post_eb", <<Token(label, e, Len(EndPrefix) + 1)>>, ls[e], e)>>
        bad(err) == [ok |-> FALSE, portions |-> <<>>, err |-> err]
    IN  CASE begins = {} -> bad(GrammarError(1, 1))
          [] begins # {} /\ ends = {} -> bad(GrammarError(Len(ls) + 1, 1))
          [] begins # {} /\ ends # {} /\ ls[e] # EndPrefix \o label \o Dashes ->
                bad(GrammarError(e, Len(EndPrefix) + 1))
          [] begins # {} /\ ends # {} /\ ls[e] = EndPrefix \o label \o Dashes ->
                CASE hasHdr /\ blanks = {} -> bad(GrammarError(e, 1))
                  [] hasHdr /\ blanks # {} /\ ~hdr.ok -> bad(hdr.err)
                  [] OTHER ->
                        [ok |-> TRUE, portions |-> pre \o hdrs \o content \o post,
                         err |-> NoError]

(***************************************************************************)
(* Decoding the header entries (headers.rs).                               *)
(***************************************************************************)
\* FromStr for ProcTypeSpecifier; [ok, spec]
ProcTypeSpecifierFromStr(s) ==
    IF \E x \in ProcTypeSpecifiers : ProcTypeSpecifierFmt(x) = s
    THEN [ok |-> TRUE, spec |-> CHOOSE x \in ProcTypeSpecifiers : ProcTypeSpecifierFmt(x) = s]
    ELSE [ok |-> FALSE, spec |-> ""]

\* ProcType::from_pair; [kind, val, err]
ProcTypeFromPair(pair) ==
    LET procver  == pair.inner[1]
        pemtypes == pair.inner[2]
        ver      == ParseU32(procver.str)
        types    == ProcTypeSpecifierFromStr(pemtypes.str)
    IN  CASE ~ver.ok -> [kind |-> "Err", val |-> <<>>, err |-> ErrSpan("ParseIntError", procver)]
          [] ver.ok /\ ~types.ok ->
                [kind |-> "Err", val |-> <<>>,
                 err |-> ErrSpan("Invalid Proc-Type specifier", pemtypes)]
          [] OTHER -> [kind |-> "Ok", val |-> <<ProcType(ver.val, types.spec)>>, err |-> NoError]

\* ContentDomain::from_pair
ContentDomainFromPair(pair) ==
    [kind |-> "Ok", val |-> <<pair.inner[1].str>>, err |-> NoError]

\* DEKInfo::from_pair: the second inner pair is unwrapped whether the
\* grammar produced it or not
DEKInfoFromPair(pair) ==
    IF Len(pair.inner) < 2
    THEN [kind |-> "Panic", val |-> <<>>, err |-> Error("unwrap on None", 0, 0, <<>>)]
    ELSE LET dekalgo       == pair.inner[1]
             dekparameters == pair.inner[2]
             para          == HexDecode(dekparameters.str)
         IN  IF ~para.ok
             THEN [kind |-> "Err", val |-> <<>>, err |-> ErrSpan("FromHexError", dekparameters)]
             ELSE [kind |-> "Ok", val |-> <<DEKInfo(dekalgo.str, para.bytes)>>, err |-> NoError]

RECURSIVE FromPairLoopDropsProcType(_, _)
\* the loop of PemHeader::from_pair as it would be if the decoded Proc-Type
\* were not stored in the header
FromPairLoopDropsProcType(hdr, entries) ==
    IF entries = <<>> THEN [kind |-> "Ok", hdr |-> hdr, err |-> NoError]
    ELSE LET hdr_entry == Head(entries)
             r == CASE hdr_entry.rule = "proctype" -> ProcTypeFromPair(hdr_entry)
                    [] hdr_entry.rule = "contentdomain" -> ContentDomainFromPair(hdr_entry)
                    [] hdr_entry.rule = "dekinfo" -> DEKInfoFromPair(hdr_entry)
                    [] OTHER -> [kind |-> "Ok", val |-> <<>>, err |-> NoError]
             next == CASE hdr_entry.rule = "contentdomain" -> [hdr EXCEPT !.content_domain = r.val]
                       [] hdr_entry.rule = "dekinfo" -> [hdr EXCEPT !.dek_info = r.val]
                       [] OTHER -> hdr
         IN  IF r.kind # "Ok"
             THEN [kind |-> r.kind, hdr |-> PemHeaderDefault, err |-> r.err]
             ELSE FromPairLoopDropsProcType(next, Tail(entries))

RECURSIVE FromPairLoop(_, _)
\* the loop of PemHeader::from_pair over the entries left; [kind, hdr, err]
FromPairLoop(hdr, entries) ==
    IF entries = <<>> THEN [kind |-> "Ok", hdr |-> hdr, err |-> NoError]
    ELSE LET hdr_entry == Head(entries)
             r == CASE hdr_entry.rule = "proctype" -> ProcTypeFromPair(hdr_entry)
                    [] hdr_entry.rule = "contentdomain" -> ContentDomainFromPair(hdr_entry)
                    [] hdr_entry.rule = "dekinfo" -> DEKInfoFromPair(hdr_entry)
                    [] OTHER -> [kind |-> "Ok", val |-> <<>>, err |-> NoError]
             next == CASE hdr_entry.rule = "proctype" -> [hdr EXCEPT !.proc_type = r.val]
                       [] hdr_entry.rule = "contentdomain" -> [hdr EXCEPT !.content_domain = r.val]
                       [] hdr_entry.rule = "dekinfo" -> [hdr EXCEPT !.dek_info = r.val]
                       [] OTHER -> hdr
         IN  IF r.kind # "Ok"
             THEN [kind |-> r.kind, hdr |-> PemHeaderDefault, err |-> r.err]
             ELSE FromPairLoop(next, Tail(entries))

\* PemHeader::from_pair as it would be if the decoded Proc-Type were not
\* stored in the header
PemHeaderFromPairDropsProcType(entries) ==
    FromPairLoopDropsProcType(PemHeaderDefault, entries)

\* PemHeader::from_pair
PemHeaderFromPair(entries) == FromPairLoop(PemHeaderDefault, entries)

(***************************************************************************)
(* The message parser (parser.rs) and its builder (builder.rs).            *)
(***************************************************************************)
\* PemBuilder::default()
PemBuilderDefault == [label |-> <<>>, headers |-> PemHeaderDefault, content |-> <<>>]

\* PemBuilder::label
BuilderLabel(builder, label_str) == [builder EXCEPT !.label = <<label_str>>]

\* PemBuilder::headers
BuilderHeaders(builder, headers) == [builder EXCEPT !.headers = headers]

\* PemBuilder::content
BuilderContent(builder, data) == [builder EXCEPT !.content = data]

\* PemBuilder::build: the label defaults to the empty string
BuilderBuild(builder) ==
    PemMessage(IF builder.label # <<>> THEN builder.label[1] ELSE <<>>,
               builder.headers, builder.content)

\* the content portion: every line trimmed, the lines joined, then decoded
ContentDecode(portion) ==
    LET ls == Lines(portion.str)
    IN  Base64Decode(Concat([k \in 1..Len(ls) |-> Trim(ls[k])]))

RECURSIVE PortionsLoop(_, _)
\* the loop of pem_parser over the portions left
PortionsLoop(builder, portions) ==
    IF portions = <<>> THEN Ok(BuilderBuild(builder))
    ELSE LET p == Head(portions)
         IN  CASE p.rule = "pre_eb" ->
                    PortionsLoop(BuilderLabel(builder, p.inner[1].str), Tail(portions))
               [] p.rule = "post_eb" -> PortionsLoop(builder, Tail(portions))
               [] p.rule = "content" ->
                    LET data == ContentDecode(p)
                    IN  IF ~data.ok
                        THEN Err(Error("DecodeError", p.line, 1, p.str))
                        ELSE PortionsLoop(BuilderContent(builder, data.bytes), Tail(portions))
               [] p.rule = "headers" ->
                    LET headers == PemHeaderFromPair(p.inner)
                    IN  CASE headers.kind = "Err" -> Err(headers.err)
                          [] headers.kind = "Panic" -> Panic("headers.rs:165")
                          [] OTHER ->
                                PortionsLoop(BuilderHeaders(builder, headers.hdr), Tail(portions))

\* pem_parser as it would be if an error of the grammar were dropped and
\* the empty builder built
PemParserLenient(input) ==
    LET pem_pairs == PemGrammar(input)
    IN  IF ~pem_pairs.ok THEN Ok(BuilderBuild(PemBuilderDefault))
        ELSE PortionsLoop(PemBuilderDefault, pem_pairs.portions)

\* pem_parser: the error of the grammar is returned as it is
PemParser(input) ==
    LET pem_pairs == PemGrammar(input)
    IN  IF ~pem_pairs.ok THEN Err(pem_pairs.err)
        ELSE PortionsLoop(PemBuilderDefault, pem_pairs.portions)

\* FromStr for PemMessage
PemMessageFromStr(s) == PemParser(s)

(***************************************************************************)
(* The messages that are rendered.                                         *)
(***************************************************************************)
Labels == {<<>>, <<"A", " ", "B">>, <<"X", "-", "Y">>}

Versions == {U32(0, 0), U32(0, 4), U32(1, 0), U32(65535, 65535)}

ProcTypeOptions ==
    {<<>>} \cup {<<ProcType(v, k)>> : v \in Versions, k \in ProcTypeSpecifiers}

ContentDomainOptions == {<<>>, <<<<"R", "F", "C", "8", "2", "2">>>>, <<<<"M", "I", "M", "E">>>>}

DEKInfoOptions ==
    {<<>>, <<DEKInfo(<<"D", "E", "S", "-", "C", "B", "C">>, <<>>)>>,
     <<DEKInfo(<<"D", "E", "S", "-", "C", "B", "C">>, <<248, 20, 62, 222>>)>>,
     <<DEKInfo(<<"R", "C", "2">>, <<0, 10, 255>>)>>}

Headers ==
    {PemHeader(p, c, d) : p \in ProcTypeOptions, c \in ContentDomainOptions, d \in DEKInfoOptions}

\* a content of len bytes: all 255, or bytes that differ from place to place
ContentBytes(len, pattern) ==
    [i \in 1..len |-> IF pattern = 0 THEN 255 ELSE (37 * i + 11) % 256]

\* b"This is a message"
ThisIsAMessage ==
    <<84, 104, 105, 115, 32, 105, 115, 32, 97, 32, 109, 101, 115, 115, 97, 103, 101>>

Messages ==
    {PemMessage(l, h, ContentBytes(n, 1)) : l \in Labels, h \in Headers, n \in 0..SmallContentLen}
    \cup {PemMessage(<<"A", " ", "B">>, h, ContentBytes(n, p)) :
            h \in {PemHeaderDefault, PemHeader(<<ProcType(U32(0, 4), "ENCRYPTED")>>, <<>>, <<>>)},
            n \in 0..MaxContentLen, p \in {0, 1}}
    \cup {PemMessage(<<"M", "E", "S", "S", "A", "G", "E">>, PemHeaderDefault, ThisIsAMessage)}

(***************************************************************************)
(* The documents that are parsed: lines before the block, the BEGIN line,  *)
(* header entries, content lines and the END line.                         *)
(***************************************************************************)
\* the physical lines of a header entry of the given kind
EntryLines(kind) ==
    CASE kind = "PT"          -> <<<<"P", "r", "o", "c", "-", "T", "y", "p", "e", ":", " ", "4", ",", "E", "N", "C", "R", "Y", "P", "T", "E", "D">>>>
      [] kind = "PTBogus"     -> <<<<"P", "r", "o", "c", "-", "T", "y", "p", "e", ":", " ", "4", ",", "B", "O", "G", "U", "S">>>>
      [] kind = "PTBigVer"    -> <<<<"P", "r", "o", "c", "-", "T", "y", "p", "e", ":", " ", "4", "2", "9", "4", "9", "6", "7", "2", "9", "6", ",", "C", "R", "L">>>>
      [] kind = "PTNoComma"   -> <<<<"P", "r", "o", "c", "-", "T", "y", "p", "e", ":", " ", "4">>>>
      [] kind = "CD"          -> <<<<"C", "o", "n", "t", "e", "n", "t", "-", "D", "o", "m", "a", "i", "n", ":", " ", "R", "F", "C", "8", "2", "2">>>>
      [] kind = "DEK"         -> <<<<"D", "E", "K", "-", "I", "n", "f", "o", ":", " ", "D", "E", "S", "-", "C", "B", "C", ",", "F", "8", "1", "4", "3", "E", "D", "E", "5", "9", "6", "0", "C", "5", "9", "7">>>>
      [] kind = "DEKNoParam"  -> <<<<"D", "E", "K", "-", "I", "n", "f", "o", ":", " ", "D", "E", "S", "-", "C", "B", "C">>>>
      [] kind = "DEKEmptyHex" -> <<<<"D", "E", "K", "-", "I", "n", "f", "o", ":", " ", "D", "E", "S", "-", "C", "B", "C", ",">>>>
      [] kind = "DEKBadHex"   -> <<<<"D", "E", "K", "-", "I", "n", "f", "o", ":", " ", "D", "E", "S", "-", "C", "B", "C", ",", "Z", "Z">>>>
      [] kind = "RecipientID" -> <<<<"R", "e", "c", "i", "p", "i", "e", "n", "t", "-", "I", "D", "-", "S", "y", "m", "m", "e", "t", "r", "i", "c", ":", " ", "a", "@", "b", ",", "p", "t", "f", "-", "k", "m", "c", ",", "3">>>>
      [] kind = "KeyInfo"     -> <<<<"K", "e", "y", "-", "I", "n", "f", "o", ":", " ", "D", "E", "S", "-", "E", "C", "B", ",", "R", "S", "A", "-", "M", "D", "2", ",", "9", "F", "D", "3", ",">>,
                                   <<" ", " ", " ", " ", " ", " ", " ", " ", " ", " ", "B", "7", "0", "6">>>>
      [] kind = "OrigCert"    -> <<<<"O", "r", "i", "g", "i", "n", "a", "t", "o", "r", "-", "C", "e", "r", "t", "i", "f", "i", "c", "a", "t", "e", ":">>,
                                   <<" ", "M", "I", "I", "B">>>>
      [] kind = "PTMicOnly" -> <<<<"P", "r", "o", "c", "-", "T", "y", "p", "e", ":", " ", "4", ",", "M", "I", "C", "-", "O", "N", "L", "Y">>>>
      [] kind = "PTMicClear" -> <<<<"P", "r", "o", "c", "-", "T", "y", "p", "e", ":", " ", "4", ",", "M", "I", "C", "-", "C", "L", "E", "A", "R">>>>
      [] kind = "PTCrlMax" -> <<<<"P", "r", "o", "c", "-", "T", "y", "p", "e", ":", " ", "4", "2", "9", "4", "9", "6", "7", "2", "9", "5", ",", "C", "R", "L">>>>
      [] kind = "PTLower" -> <<<<"P", "r", "o", "c", "-", "T", "y", "p", "e", ":", " ", "4", ",", "e", "n", "c", "r", "y", "p", "t", "e", "d">>>>
      [] kind = "PTUnderscore" -> <<<<"P", "r", "o", "c", "-", "T", "y", "p", "e", ":", " ", "4", ",", "M", "I", "C", "_", "O", "N", "L", "Y">>>>
      [] kind = "PTNonNum" -> <<<<"P", "r", "o", "c", "-", "T", "y", "p", "e", ":", " ", "x", ",", "C", "R", "L">>>>
      [] kind = "Unknown"     -> <<<<"F", "o", "o", ":", " ", "b", "a", "r">>>>

\* the extended entries, which the decoder skips
ExtendedKinds == {"RecipientID", "KeyInfo", "OrigCert"}

\* the entries that are a header field error
FaultyKinds == {"PTBogus", "PTBigVer", "PTNoComma", "PTLower", "PTUnderscore", "PTNonNum",
                "DEKBadHex", "Unknown"}

\* the entries that are a Proc-Type field
ProcTypeKinds == {"PT", "PTMicOnly", "PTMicClear", "PTCrlMax", "PTBogus", "PTBigVer",
                  "PTNoComma", "PTLower", "PTUnderscore", "PTNonNum"}

FirstKinds == ProcTypeKinds \cup {"CD", "DEK", "DEKNoParam", "DEKEmptyHex", "DEKBadHex",
                                  "RecipientID", "KeyInfo", "OrigCert", "Unknown"}

RestKinds == {"PTBogus", "CD", "DEK", "DEKNoParam", "DEKEmptyHex", "DEKBadHex",
              "RecipientID", "KeyInfo", "OrigCert", "Unknown"}

RECURSIVE RestSeqs(_)
\* the sequences of at most n entries that follow the first one
RestSeqs(n) ==
    IF n = 0 THEN {<<>>}
    ELSE {<<>>} \cup {<<k>> \o r : k \in RestKinds, r \in RestSeqs(n - 1)}

EntrySeqs ==
    {<<>>} \cup {<<k>> \o r : k \in FirstKinds, r \in RestSeqs(MaxEntries - 1)}

Document(pre, label, entries, content, end) ==
    [pre |-> pre, label |-> label, entries |-> entries, content |-> content, end |-> end]

DocLabel == <<"P", "R", "I", "V", "A", "C", "Y", "-", "E", "N", "H", "A", "N", "C", "E", "D", " ", "M", "E", "S", "S", "A", "G", "E">>

OtherLabel == <<"P", "R", "I", "V", "A", "C", "Y">>

Documents ==
    {Document(<<>>, DocLabel, es, <<<<"Q", "U", "J", "D">>>>, <<DocLabel>>) : es \in EntrySeqs}
    \cup {Document(pre, DocLabel, es, c, end) :
            pre \in {<<>>, <<<<"j", "u", "n", "k">>>>},
            es \in {<<>>, <<"PT">>, <<"PT", "KeyInfo">>, <<"PT", "DEKNoParam">>},
            c \in {<<>>, <<<<"Q", "U", "J", "D">>>>, <<<<"Q", "U", "J", "D">>, <<"R", "U", "Y", "=">>>>, <<<<"Q">>>>},
            end \in {<<DocLabel>>, <<OtherLabel>>, <<>>}}

\* the text of a document
DocText(d) ==
    LET withNL(ls) == Concat([k \in 1..Len(ls) |-> ls[k] \o <<NL>>])
        hdr == Concat([k \in 1..Len(d.entries) |-> withNL(EntryLines(d.entries[k]))])
    IN  withNL(d.pre)
        \o BeginPrefix \o d.label \o Dashes \o <<NL>>
        \o hdr \o (IF d.entries # <<>> THEN <<NL>> ELSE <<>>)
        \o withNL(d.content)
        \o (IF d.end # <<>> THEN EndPrefix \o d.end[1] \o Dashes ELSE <<>>)

NoDocument == Document(<<>>, <<>>, <<>>, <<>>, <<>>)

(***************************************************************************)
(* The state machine.  msg is the message handed to the serializer, hdrout *)
(* what Display for PemHeader wrote for its headers, rendered what Display *)
(* for PemMessage returned and wrote, parsed the result of parsing that    *)
(* text again; doc is a document handed to the parser and result what the  *)
(* parser returned.                                                        *)
(***************************************************************************)
NotRendered == [done |-> FALSE, ok |-> FALSE, text |-> <<>>]

Init ==
    /\ msg \in Messages
    /\ hdrout = [done |-> FALSE, text |-> <<>>]
    /\ rendered = NotRendered
    /\ parsed = NoResult
    /\ doc = NoDocument
    /\ result = NoResult

\* write!(f, "{}", msg.headers)
FmtHeader ==
    /\ ~hdrout.done
    /\ hdrout' = [done |-> TRUE, text |-> PemHeaderFmt(msg.headers)]
    /\ UNCHANGED <<msg, rendered, parsed, doc, result>>

\* write!(f, "{}", msg)
Fmt ==
    /\ ~rendered.done
    /\ rendered' = [done |-> TRUE, ok |-> PemMessageFmt(msg).ok, text |-> PemMessageFmt(msg).text]
    /\ UNCHANGED <<msg, hdrout, parsed, doc, result>>

\* the rendered text parsed again: text.parse::<PemMessage>()
FromStr ==
    /\ rendered.done /\ rendered.ok
    /\ parsed.kind = "None"
    /\ parsed' = PemMessageFromStr(rendered.text)
    /\ UNCHANGED <<msg, hdrout, rendered, doc, result>>

Next == FmtHeader \/ Fmt \/ FromStr

Spec == Init /\ [][Next]_vars

InitParse ==
    /\ msg = NoMessage
    /\ hdrout = [done |-> FALSE, text |-> <<>>]
    /\ rendered = NotRendered
    /\ parsed = NoResult
    /\ doc \in Documents
    /\ result = NoResult

\* the text of the document parsed: text.parse::<PemMessage>()
FromStrDoc ==
    /\ result.kind = "None"
    /\ result' = PemMessageFromStr(DocText(doc))
    /\ UNCHANGED <<msg, hdrout, rendered, parsed, doc>>

NextParse == FromStrDoc

SpecParse == InitParse /\ [][NextParse]_vars

(***************************************************************************)
(* Properties of the serializer, checked under Spec.                       *)
(***************************************************************************)
RECURSIVE ExpectedBody(_)
\* the symbols s cut into lines of LineWidth characters, a line feed after
\* every line
ExpectedBody(s) ==
    IF s = <<>> THEN <<>>
    ELSE IF Len(s) <= LineWidth THEN s \o <<NL>>
    ELSE SubSeq(s, 1, LineWidth) \o <<NL>> \o ExpectedBody(SubSeq(s, LineWidth + 1, Len(s)))

\* the number of lines the header section takes in the rendered message,
\* the blank line that closes it included
HeaderLineCount ==
    IF msg.headers.proc_type = <<>> THEN 0
    ELSE 2 + Len(msg.headers.content_domain) + Len(msg.headers.dek_info)

\* the body lines of the rendered message: the lines between the header
\* section and the END line
BodyLines ==
    LET ls == Lines(rendered.text)
    IN  SubSeq(ls, 2 + HeaderLineCount, Len(ls) - 1)

\* C1: round trip.  For every message with a label that is not empty and
\* with headers that are all absent or carry a Proc-Type, parsing the text
\* rendered from the message succeeds and yields the message again.
C1_RoundTrip ==
    (/\ parsed.kind # "None"
     /\ msg.label # <<>>
     /\ (msg.headers = PemHeaderDefault \/ msg.headers.proc_type # <<>>))
    => parsed = Ok(msg)

\* C2: the rendered text of a message with a label that is not empty is the
\* BEGIN line, the header block, one blank line if and only if the header
\* block produced any text, the wrapped base64 body with a line feed after
\* every line, and the END line without a line feed after it.
C2_RenderedText ==
    (rendered.done /\ msg.label # <<>>) =>
        LET header == PemHeaderFmt(msg.headers)
        IN  /\ rendered.ok
            /\ rendered.text =
                   BeginPrefix \o msg.label \o Dashes \o <<NL>>
                   \o header
                   \o (IF header # <<>> THEN <<NL>> ELSE <<>>)
                   \o ExpectedBody(Base64Encode(msg.content))
                   \o EndPrefix \o msg.label \o Dashes
            /\ rendered.text[Len(rendered.text)] # NL

\* the message of tests/serialize.rs rendered to the text the test expects
C2_Witness ==
    /\ rendered.done
    /\ msg = PemMessage(<<"M", "E", "S", "S", "A", "G", "E">>, PemHeaderDefault, ThisIsAMessage)
    /\ rendered.text = <<"-", "-", "-", "-", "-", "B", "E", "G", "I", "N", " ", "M", "E", "S", "S", "A", "G", "E", "-", "-", "-", "-", "-", "\n", "V", "G", "h", "p", "c", "y", "B", "p", "c", "y", "B", "h", "I", "G", "1", "l", "c", "3", "N", "h", "Z", "2", "U", "=", "\n", "-", "-", "-", "-", "-", "E", "N", "D", " ", "M", "E", "S", "S", "A", "G", "E", "-", "-", "-", "-", "-">>

\* C3: rendering a message with an empty label fails with an error value,
\* whatever its headers and content, and writes nothing before it fails.
C3_EmptyLabel ==
    (rendered.done /\ msg.label = <<>>) => (~rendered.ok /\ rendered.text = <<>>)

C3_Witness ==
    /\ rendered.done /\ ~rendered.ok
    /\ msg.label = <<>>
    /\ msg.headers.proc_type # <<>>
    /\ msg.content # <<>>

\* C4: header gating.  A header block without Proc-Type renders to the
\* empty text, whatever its Content-Domain and DEK-Info.
C4_HeaderGating ==
    (hdrout.done /\ msg.headers.proc_type = <<>>) => hdrout.text = <<>>

C4_Witness ==
    /\ hdrout.done /\ hdrout.text = <<>>
    /\ msg.headers.proc_type = <<>>
    /\ msg.headers.content_domain # <<>>
    /\ msg.headers.dek_info # <<>>

\* what C5 states of the body lines but for the length of the last one
C5_Lines(bl) ==
    /\ \A k \in 1..(Len(bl) - 1) : Len(bl[k]) = LineWidth
    /\ bl # <<>> => Len(bl[Len(bl)]) \in 1..LineWidth
    /\ Concat(bl) = Base64Encode(msg.content)
    /\ msg.content = <<>> => bl = <<>>

\* C5 as the specification states it: every body line but the last has 64
\* characters, the last has 1 to 64 and fewer than 64 when the content
\* length is no multiple of 48, every body line ends with a line feed, and
\* an empty content gives no body line.
C5_Original ==
    (rendered.done /\ rendered.ok) =>
        /\ C5_Lines(BodyLines)
        /\ (Len(msg.content) % 48 # 0) => Len(BodyLines[Len(BodyLines)]) < LineWidth

\* C5, amended: every body line but the last has 64 characters, the last
\* has 1 to 64, and fewer than 64 exactly when the content length modulo 48
\* is none of 0, 46 and 47 (when the base64 length is no multiple of 64);
\* the body lines together are the base64 text of the content, every one
\* ends with a line feed, and an empty content gives no body line.
C5_WrapWidth ==
    (rendered.done /\ rendered.ok) =>
        /\ C5_Lines(BodyLines)
        /\ msg.content # <<>> =>
              (Len(BodyLines[Len(BodyLines)]) < LineWidth
                 <=> Len(msg.content) % 48 \notin {0, 46, 47})

\* a content of 50 bytes rendered as a full line and a short one
C5_Witness ==
    /\ rendered.done /\ rendered.ok
    /\ Len(msg.content) = 50
    /\ Len(BodyLines) = 2
    /\ Len(BodyLines[1]) = LineWidth
    /\ Len(BodyLines[2]) = 4

\* C9: DEK-Info round trip.  An empty parameter renders as
\* "DEK-Info: <algorithm>", any other as "DEK-Info: <algorithm>,<HEX>", and
\* parsing the rendered line yields the same algorithm and parameter as a
\* value, never an error or a panic.
C9_DEKInfoRoundTrip ==
    LET dek == msg.headers.dek_info[1]
    IN  /\ (hdrout.done /\ msg.headers.proc_type # <<>> /\ msg.headers.dek_info # <<>>) =>
              LET ls   == Lines(hdrout.text)
                  line == ls[Len(ls)]
              IN  IF dek.parameter = <<>>
                  THEN line = DEKInfoName \o <<":", " ">> \o dek.algorithm
                  ELSE line = DEKInfoName \o <<":", " ">> \o dek.algorithm \o <<",">>
                              \o HexEncodeUpper(dek.parameter)
        /\ (parsed.kind # "None" /\ msg.headers.proc_type # <<>> /\ msg.headers.dek_info # <<>>) =>
              (parsed.kind = "Ok" /\ parsed.msg.headers.dek_info = <<dek>>)

\* C10: a header block with a Proc-Type renders Proc-Type, then
\* Content-Domain if present, then DEK-Info if present, each as one line
\* "<Field-Name>: <value>" that ends with a line feed, and nothing else.
C10_HeaderOrder ==
    (hdrout.done /\ msg.headers.proc_type # <<>>) =>
        LET h  == msg.headers
            pt == h.proc_type[1]
            expected ==
                <<ProcTypeName \o <<":", " ">> \o U32Digits(pt.ver) \o <<",">>
                    \o ProcTypeSpecifierFmt(pt.spec)>>
                \o (IF h.content_domain # <<>>
                    THEN <<ContentDomainName \o <<":", " ">> \o h.content_domain[1]>>
                    ELSE <<>>)
                \o (IF h.dek_info # <<>> THEN <<DEKInfoFmt(h.dek_info[1])>> ELSE <<>>)
        IN  /\ Lines(hdrout.text) = expected
            /\ hdrout.text[Len(hdrout.text)] = NL
            /\ Cardinality({i \in 1..Len(hdrout.text) : hdrout.text[i] = NL}) = Len(expected)

C10_Witness ==
    /\ hdrout.done
    /\ msg.headers.proc_type # <<>>
    /\ msg.headers.content_domain # <<>>
    /\ msg.headers.dek_info # <<>>
    /\ Len(Lines(hdrout.text)) = 3

(***************************************************************************)
(* Properties of the parser, checked under SpecParse.                      *)
(***************************************************************************)
\* the document is a block of its own with a content that decodes
GoodEnvelope ==
    /\ doc.pre = <<>>
    /\ doc.end = <<doc.label>>
    /\ doc.content = <<<<"Q", "U", "J", "D">>>>

\* the line of the text on which the k-th header entry of the document starts
EntryLine(k) ==
    Len(doc.pre) + 2 + Len(Concat([j \in 1..(k - 1) |-> EntryLines(doc.entries[j])]))

\* C6: a block whose END label differs from its BEGIN label, or that has no
\* END line, fails with an error of the envelope grammar; no message is
\* returned.
C6_EndLabel ==
    (result.kind # "None" /\ doc.end # <<doc.label>>) =>
        (result.kind = "Err" /\ result.err.message = "grammar")

C6_Witness ==
    /\ result.kind = "Err"
    /\ doc.end = <<OtherLabel>>
    /\ doc.entries # <<>>
    /\ doc.content # <<>>

\* the entries a well-formed header section is made of
WellFormedKinds == {"PT", "CD", "DEK", "DEKNoParam", "DEKEmptyHex"} \cup ExtendedKinds

\* the document without its extended entries
Stripped == [doc EXCEPT !.entries = SelectSeq(doc.entries, LAMBDA k : k \notin ExtendedKinds)]

\* C7: a well-formed block whose header section starts with Proc-Type and
\* holds extended entries parses successfully, its label kept as it is, and
\* its headers are those of the same block without the extended entries.
C7_ExtendedSkipped ==
    (/\ result.kind # "None"
     /\ GoodEnvelope
     /\ doc.entries # <<>>
     /\ doc.entries[1] = "PT"
     /\ \A k \in 1..Len(doc.entries) : doc.entries[k] \in WellFormedKinds
     /\ \E k \in 1..Len(doc.entries) : doc.entries[k] \in ExtendedKinds)
    => /\ result.kind = "Ok"
       /\ result.msg.label = doc.label
       /\ PemMessageFromStr(DocText(Stripped)).kind = "Ok"
       /\ result.msg.headers = PemMessageFromStr(DocText(Stripped)).msg.headers

\* C8: a header field error (an unknown field name, a malformed Proc-Type
\* or DEK-Info body, an invalid hex payload) aborts the parse with an error
\* value that points at a faulty entry, whatever valid entries precede it.
C8_HeaderErrorAborts ==
    (/\ result.kind # "None"
     /\ GoodEnvelope
     /\ doc.entries # <<>>
     /\ doc.entries[1] \in {"PT"} \cup FaultyKinds
     /\ \E k \in 1..Len(doc.entries) : doc.entries[k] \in FaultyKinds)
    => /\ result.kind = "Err"
       /\ \E k \in 1..Len(doc.entries) :
             doc.entries[k] \in FaultyKinds /\ result.err.line = EntryLine(k)

\* C11: every header block the decoder returns has no Content-Domain and no
\* DEK-Info unless it has a Proc-Type; a header section whose first entry is
\* no Proc-Type is rejected with an error and yields no header block.
C11_ProcTypeFirst ==
    /\ result.kind = "Ok" =>
          (result.msg.headers.proc_type = <<>> =>
              /\ result.msg.headers.content_domain = <<>>
              /\ result.msg.headers.dek_info = <<>>)
    /\ (/\ result.kind # "None"
        /\ doc.entries # <<>>
        /\ doc.entries[1] \notin ProcTypeKinds)
       => result.kind = "Err"

\* a block that is well-formed but for its header section, which starts with
\* Content-Domain and goes on with DEK-Info, is rejected
C11_Witness ==
    /\ result.kind = "Err"
    /\ GoodEnvelope
    /\ Len(doc.entries) >= 2
    /\ doc.entries[1] = "CD"
    /\ doc.entries[2] = "DEK"

\* the Proc-Type entries whose version is a u32 and whose specifier is one
\* of the four tokens, with the value each of them stands for
ValidProcTypeKinds == {"PT", "PTMicOnly", "PTMicClear", "PTCrlMax"}

ExpectedProcType(kind) ==
    CASE kind = "PT"         -> ProcType(U32(0, 4), "ENCRYPTED")
      [] kind = "PTMicOnly"  -> ProcType(U32(0, 4), "MIC_ONLY")
      [] kind = "PTMicClear" -> ProcType(U32(0, 4), "MIC_CLEAR")
      [] kind = "PTCrlMax"   -> ProcType(U32(65535, 65535), "CRL")

\* the Proc-Type entries whose version is no u32, with the version token
BadVersionKinds == {"PTBigVer", "PTNonNum"}

BadVersionToken(kind) ==
    CASE kind = "PTBigVer" -> <<"4", "2", "9", "4", "9", "6", "7", "2", "9", "6">>
      [] kind = "PTNonNum" -> <<"x">>

\* the Proc-Type entries whose specifier is none of the four tokens, with
\* the specifier token
BadSpecifierKinds == {"PTBogus", "PTLower", "PTUnderscore"}

BadSpecifierToken(kind) ==
    CASE kind = "PTBogus"      -> <<"B", "O", "G", "U", "S">>
      [] kind = "PTLower"      -> <<"e", "n", "c", "r", "y", "p", "t", "e", "d">>
      [] kind = "PTUnderscore" -> <<"M", "I", "C", "_", "O", "N", "L", "Y">>

\* the text reaches the decoding of its first header entry: the envelope is
\* well-formed and every header line is one the grammar knows
HeaderDecoded ==
    /\ result.kind # "None"
    /\ doc.end = <<doc.label>>
    /\ doc.entries # <<>>
    /\ \A k \in 1..Len(doc.entries) : doc.entries[k] # "Unknown"

\* C12: Proc-Type decoding.  A version that is no unsigned 32-bit integer
\* (out of range or not a number) is an error at the version token, never a
\* wrapped value; a specifier other than ENCRYPTED, MIC-ONLY, MIC-CLEAR and
\* CRL, written exactly so, is an invalid-specifier error at the specifier
\* token; any other Proc-Type decodes to the version and the enum value that
\* render back to the same text.
C12_ProcTypeDecoding ==
    HeaderDecoded =>
        LET kind == doc.entries[1]
            line == EntryLine(1)
            vcol == Len(ProcTypeName) + 3
        IN  /\ kind \in BadVersionKinds =>
                  /\ result.kind = "Err"
                  /\ result.err = Error("ParseIntError", line, vcol, BadVersionToken(kind))
            /\ kind \in BadSpecifierKinds =>
                  /\ result.kind = "Err"
                  /\ result.err = Error("Invalid Proc-Type specifier", line, vcol + 2,
                                        BadSpecifierToken(kind))
            /\ kind \in ValidProcTypeKinds =>
                  /\ result.kind = "Err" => result.err.line # line
                  /\ (result.kind = "Ok" /\ \A k \in 2..Len(doc.entries) :
                                                doc.entries[k] \notin ProcTypeKinds) =>
                        /\ result.msg.headers.proc_type = <<ExpectedProcType(kind)>>
                        /\ ProcTypeFmt(result.msg.headers.proc_type[1]) = EntryLines(kind)[1]

\* "Proc-Type: 4,BOGUS" rejected with the error at the token BOGUS
C12_Witness ==
    /\ HeaderDecoded
    /\ doc.entries[1] = "PTBogus"
    /\ result.kind = "Err"
    /\ result.err.message = "Invalid Proc-Type specifier"
    /\ result.err.str = <<"B", "O", "G", "U", "S">>

====
